---- MODULE Spec2Model ----
(***************************************************************************)
(* Model of the AI-Learning backend: the sentence-aware chunker and the    *)
(* text cleaner of utils/text_utils.py, and the LLM response parser that   *)
(* exists twice, in main.py and in services/llm_service.py; the upload     *)
(* and generate endpoints of main.py, the prompt builders, the choice-type *)
(* record of models.py and the accessor get_llm_service.                   *)
(*                                                                         *)
(* A Python str is a sequence of one-symbol strings.  A symbol is either a *)
(* single character (" ", ".", "[", ...) or a fixed word that the code     *)
(* never looks inside ("question", "json", the code fence, ...).           *)
(***************************************************************************)
EXTENDS Integers, Sequences, FiniteSets, TLC

(***************************************************************************)
(* Bounds of the model                                                     *)
(***************************************************************************)
MaxTextLen == 7
MaxBudget == 5
MaxRawLen == 6
MaxLinesLen == 7
MaxItems == 2

VARIABLES
    pc,          \* position of the request being served
    text,        \* chunk_text: the text argument
    max_chars,   \* chunk_text: the max_chars argument
    chunks,      \* chunk_text: the returned list
    rechunked,   \* chunk_text applied again to every returned chunk
    raw,         \* clean_extracted_text: the text argument
    cleaned,     \* clean_extracted_text: the returned text
    recleaned,   \* clean_extracted_text applied to its own result
    impl,        \* generate: "main" (main.py) or "service" (LLMService)
    mode,        \* generate: req.mode
    stage,       \* generate: number of stream parts received
    parts,       \* generate: the contents of the parts, as they arrived
    response_text, \* generate: the accumulated reply
    parsed,      \* generate: outcome of the response parser
    result,      \* generate: outcome of generate_flashcards
    status,      \* generate: HTTP status of the response, 0 before it
    mcq_args,    \* MultipleChoiceQuestion: the keyword arguments
    mcq,         \* MultipleChoiceQuestion: the instance or the error
    file,        \* upload: the uploaded file, if one is given
    form_text,   \* upload: the text form field, if one is given
    calls,       \* upload: the collaborators called, in order
    raw_text,    \* upload: what extract_text_from_pdf returned
    response,    \* upload: the response, or the HTTPException raised
    source_text, \* prompt: the text argument, as runs of one character
    num_cards,   \* prompt: the num_cards argument
    builder,     \* prompt: which builder ran, "none" before it
    truncated_text, \* prompt: the text the builder kept
    prompt,      \* prompt: the prompt string, as runs
    llm_service_instance, \* service: the module global, 0 for None
    thread_pc,   \* service: where each thread is in get_llm_service
    thread_new,  \* service: the instance each thread constructed, 0 if none
    thread_returned, \* service: what each call returned, 0 before it
    instances,   \* service: number of LLMService instances constructed
    readers,     \* service: the threads that read the module global
    writers      \* service: the threads that wrote the module global

chunkVars == <<text, max_chars, chunks, rechunked>>
cleanVars == <<raw, cleaned, recleaned>>
genVars == <<impl, mode, stage, parts, response_text, parsed, result, status>>
choiceVars == <<mcq_args, mcq>>
uploadVars == <<file, form_text, calls, raw_text, response>>
promptVars == <<source_text, num_cards, builder, truncated_text, prompt>>
serviceVars == <<llm_service_instance, thread_pc, thread_new,
                 thread_returned, instances, readers, writers>>
vars == <<pc, chunkVars, cleanVars, genVars, choiceVars, uploadVars,
          promptVars, serviceVars>>

(***************************************************************************)
(* Python str helpers                                                      *)
(***************************************************************************)
Min(a, b) == IF a < b THEN a ELSE b

\* all strings over an alphabet, up to a length
Strings(alphabet, n) == UNION {[1..k -> alphabet] : k \in 0..n}

\* str.isspace() / regex \s on the symbols of the model
IsSpace(c) == c \in {" ", "\n", "\t"}

\* index of the first non-whitespace symbol at or after i (Len(s)+1 if none)
RECURSIVE SkipSpace(_, _)
SkipSpace(s, i) ==
    IF i > Len(s) THEN Len(s) + 1
    ELSE IF IsSpace(s[i]) THEN SkipSpace(s, i + 1) ELSE i

\* index of the last non-whitespace symbol at or before i (0 if none)
RECURSIVE SkipSpaceBack(_, _)
SkipSpaceBack(s, i) ==
    IF i < 1 THEN 0
    ELSE IF IsSpace(s[i]) THEN SkipSpaceBack(s, i - 1) ELSE i

\* str.strip()
strip(s) == SubSeq(s, SkipSpace(s, 1), SkipSpaceBack(s, Len(s)))

\* "".join(list)
RECURSIVE Concat(_)
Concat(ss) == IF ss = <<>> THEN <<>> ELSE Head(ss) \o Concat(Tail(ss))

\* the non-whitespace symbols of a string, in order
NonSpace(s) == SelectSeq(s, LAMBDA c : ~IsSpace(c))

(***************************************************************************)
(* chunk_text (utils/text_utils.py)                                        *)
(***************************************************************************)

\* re.split(r'(?<=[.!?])\s+', text): cur is the piece being scanned
RECURSIVE SplitFrom(_, _, _)
SplitFrom(s, i, cur) ==
    IF i > Len(s) THEN <<cur>>
    ELSE IF IsSpace(s[i]) /\ i > 1 /\ (s[i - 1] \in {".", "!", "?"})
         THEN <<cur>> \o SplitFrom(s, SkipSpace(s, i), <<>>)
         ELSE SplitFrom(s, i + 1, Append(cur, s[i]))

split_sentences(s) == SplitFrom(s, 1, <<>>)

\* len(current_chunk) + len(sentence) + 1 > max_chars
ExceedsBudget_loose(current_chunk, sentence, budget) ==
    Len(current_chunk) + Len(sentence) > budget + 1

ExceedsBudget(current_chunk, sentence, budget) ==
    Len(current_chunk) + Len(sentence) + 1 > budget

\* for i in range(0, len(sentence), max_chars):
\*     chunks.append(sentence[i:i + max_chars].strip())
ForceSplit_dropTail(sentence, budget) ==
    [n \in 1..(Len(sentence) \div budget) |->
        strip(SubSeq(sentence, (n - 1) * budget + 1, n * budget))]

ForceSplit(sentence, budget) ==
    [n \in 1..((Len(sentence) + budget - 1) \div budget) |->
        strip(SubSeq(sentence, (n - 1) * budget + 1,
                     Min(n * budget, Len(sentence))))]

\* the for loop over the sentences; k is the index of the next sentence
RECURSIVE ChunkLoop(_, _, _, _, _)
ChunkLoop(sentences, k, acc, current_chunk, budget) ==
    IF k > Len(sentences)
    THEN IF strip(current_chunk) # <<>>
         THEN Append(acc, strip(current_chunk))
         ELSE acc
    ELSE LET sentence == strip(sentences[k]) IN
         IF sentence = <<>>
         THEN ChunkLoop(sentences, k + 1, acc, current_chunk, budget)
         ELSE IF ExceedsBudget(current_chunk, sentence, budget)
         THEN LET flushed == IF current_chunk # <<>>
                             THEN Append(acc, strip(current_chunk))
                             ELSE acc
              IN IF Len(sentence) > budget
                 THEN ChunkLoop(sentences, k + 1,
                                flushed \o ForceSplit(sentence, budget),
                                <<>>, budget)
                 ELSE ChunkLoop(sentences, k + 1, flushed,
                                sentence \o <<" ">>, budget)
         ELSE ChunkLoop(sentences, k + 1, acc,
                        current_chunk \o sentence \o <<" ">>, budget)

chunk_text(t, budget) ==
    IF t = <<>> THEN <<>>
    ELSE ChunkLoop(split_sentences(t), 1, <<>>, <<>>, budget)

(***************************************************************************)
(* clean_extracted_text (utils/text_utils.py)                              *)
(***************************************************************************)

\* regex \d
DigitSyms == {"0", "1", "2", "3", "4", "5", "6", "7", "8", "9", "2024"}

IsDigit(c) == c \in DigitSyms

\* regex \w
WordSyms ==
    DigitSyms \cup {"a", "b", "_", "www", "http", "https"}
        \cup {"Chapter", "Section", "Page"}

\* first index at or after i whose symbol is not in the class
RECURSIVE Skip(_, _, _)
Skip(s, i, class) ==
    IF i > Len(s) THEN Len(s) + 1
    ELSE IF s[i] \in class THEN Skip(s, i + 1, class) ELSE i

\* number of decimal digits in s[i..j-1]; the symbol "2024" has four
RECURSIVE DigitCount(_, _, _)
DigitCount(s, i, j) ==
    IF i >= j THEN 0
    ELSE (IF s[i] = "2024" THEN 4 ELSE IF s[i] \in DigitSyms THEN 1 ELSE 0)
         + DigitCount(s, i + 1, j)

\* index of the last "\n" in s[i..j], 0 if there is none
LastNewline(s, i, j) ==
    LET nl == {k \in i..j : k <= Len(s) /\ s[k] = "\n"}
    IN IF nl = {} THEN 0 ELSE CHOOSE k \in nl : \A m \in nl : m <= k

\* ^ under re.MULTILINE
AtLineStart(s, i) == i = 1 \/ s[i - 1] = "\n"

\* index of the last symbol of the line that holds position i
RECURSIVE LineEnd(_, _)
LineEnd(s, i) ==
    IF i > Len(s) \/ s[i] = "\n" THEN i - 1 ELSE LineEnd(s, i + 1)

\* regex \b in front of a word symbol at position i
WordBoundaryBefore(s, i) == i = 1 \/ ~(s[i - 1] \in WordSyms)

\* text = re.sub(r'\n{3,}', '\n\n', text)
RECURSIVE CollapseNewlines(_, _)
CollapseNewlines(s, i) ==
    IF i > Len(s) THEN <<>>
    ELSE LET e == Skip(s, i, {"\n"}) IN
         IF e - i >= 3
         THEN <<"\n", "\n">> \o CollapseNewlines(s, e)
         ELSE <<s[i]>> \o CollapseNewlines(s, i + 1)

\* end of the match of ^\s*\d+\s*$ that starts at i, 0 if there is none
PageNumberEnd(s, i) ==
    LET j == SkipSpace(s, i)
        k == Skip(s, j, DigitSyms)
        m == SkipSpace(s, k)
    IN IF ~AtLineStart(s, i) \/ k = j THEN 0
       ELSE IF m > Len(s) THEN Len(s)
       ELSE IF LastNewline(s, k, m - 1) = 0 THEN 0
       ELSE LastNewline(s, k, m - 1) - 1

\* text = re.sub(r'^\s*\d+\s*$', '', text, flags=re.MULTILINE)
RECURSIVE RemovePageNumbers(_, _)
RemovePageNumbers(s, i) ==
    IF i > Len(s) THEN <<>>
    ELSE IF PageNumberEnd(s, i) > 0
         THEN RemovePageNumbers(s, PageNumberEnd(s, i) + 1)
         ELSE <<s[i]>> \o RemovePageNumbers(s, i + 1)

\* end of the match of ^.*<pattern>.*$ that starts at i, for the three
\* patterns that cannot cross a line break; 0 if none
LineEndIf(s, i, found) ==
    IF AtLineStart(s, i) /\ found THEN LineEnd(s, i) ELSE 0

\* \b(Chapter|Section|Page)\s+\d+ matches at position k
KeywordAt(s, k) ==
    /\ s[k] \in {"Chapter", "Section", "Page"}
    /\ WordBoundaryBefore(s, k)
    /\ SkipSpace(s, k + 1) > k + 1
    /\ SkipSpace(s, k + 1) <= Len(s)
    /\ IsDigit(s[SkipSpace(s, k + 1)])

\* \b\d{1,2}/\d{1,2}/\d{4} matches at position k
DateAt(s, k) ==
    LET k2 == Skip(s, k, DigitSyms)
        k3 == Skip(s, k2 + 1, DigitSyms)
        k4 == Skip(s, k3 + 1, DigitSyms)
    IN /\ IsDigit(s[k])
       /\ WordBoundaryBefore(s, k)
       /\ DigitCount(s, k, k2) \in {1, 2}
       /\ k2 <= Len(s) /\ s[k2] = "/"
       /\ DigitCount(s, k2 + 1, k3) \in {1, 2}
       /\ k3 <= Len(s) /\ s[k3] = "/"
       /\ DigitCount(s, k3 + 1, k4) >= 4

\* \b\d{1,2}:\d{2} matches at position k
TimeAt(s, k) ==
    LET k2 == Skip(s, k, DigitSyms)
        k3 == Skip(s, k2 + 1, DigitSyms)
    IN /\ IsDigit(s[k])
       /\ WordBoundaryBefore(s, k)
       /\ DigitCount(s, k, k2) \in {1, 2}
       /\ k2 <= Len(s) /\ s[k2] = ":"
       /\ DigitCount(s, k2 + 1, k3) >= 2

\* \b(www\.|http://|https://) matches at position k
UrlAt(s, k) ==
    /\ WordBoundaryBefore(s, k)
    /\ \/ s[k] = "www" /\ k + 1 <= Len(s) /\ s[k + 1] = "."
       \/ /\ s[k] \in {"http", "https"}
          /\ k + 3 <= Len(s)
          /\ s[k + 1] = ":" /\ s[k + 2] = "/" /\ s[k + 3] = "/"

\* header_footer_patterns, in list order: the end of the match of
\* ^.*<pattern>.*$ that starts at i, 0 if none.  In the first pattern the
\* greedy .* keeps the last keyword of the line, and \s+ can cross a line
\* break.
HeaderFooterEnd(pattern, s, i) ==
    CASE pattern = 1 ->
            LET ks == {k \in i..LineEnd(s, i) : KeywordAt(s, k)}
                last == CHOOSE x \in ks : \A y \in ks : y <= x
            IN IF ~AtLineStart(s, i) \/ ks = {} THEN 0
               ELSE LineEnd(s, SkipSpace(s, last + 1))
      [] pattern = 2 ->
            LineEndIf(s, i, \E k \in i..LineEnd(s, i) : DateAt(s, k))
      [] pattern = 3 ->
            LineEndIf(s, i, \E k \in i..LineEnd(s, i) : TimeAt(s, k))
      [] pattern = 4 ->
            LineEndIf(s, i, \E k \in i..LineEnd(s, i) : UrlAt(s, k))

\* text = re.sub(pattern, '', text, flags=re.MULTILINE | re.IGNORECASE)
RECURSIVE RemoveMatches(_, _, _)
RemoveMatches(pattern, s, i) ==
    IF i > Len(s) THEN <<>>
    ELSE IF HeaderFooterEnd(pattern, s, i) > 0
         THEN RemoveMatches(pattern, s, HeaderFooterEnd(pattern, s, i) + 1)
         ELSE <<s[i]>> \o RemoveMatches(pattern, s, i + 1)

\* for pattern in header_footer_patterns: text = re.sub(pattern, '', ...)
RemoveHeaderFooter(s) ==
    LET t1 == RemoveMatches(1, s, 1)
        t2 == RemoveMatches(2, t1, 1)
        t3 == RemoveMatches(3, t2, 1)
    IN RemoveMatches(4, t3, 1)

\* text = re.sub(r' {2,}', ' ', text)
RECURSIVE CollapseSpaces(_, _)
CollapseSpaces(s, i) ==
    IF i > Len(s) THEN <<>>
    ELSE LET e == Skip(s, i, {" "}) IN
         IF e - i >= 2
         THEN <<" ">> \o CollapseSpaces(s, e)
         ELSE <<s[i]>> \o CollapseSpaces(s, i + 1)

\* text.split('\n')
RECURSIVE SplitLines(_, _, _)
SplitLines(s, i, cur) ==
    IF i > Len(s) THEN <<cur>>
    ELSE IF s[i] = "\n"
         THEN <<cur>> \o SplitLines(s, i + 1, <<>>)
         ELSE SplitLines(s, i + 1, Append(cur, s[i]))

\* while lines and not lines[0]: lines.pop(0)
RECURSIVE DropLeadingEmpty(_)
DropLeadingEmpty(lines) ==
    IF lines # <<>> /\ Head(lines) = <<>>
    THEN DropLeadingEmpty(Tail(lines)) ELSE lines

\* while lines and not lines[-1]: lines.pop()
RECURSIVE DropTrailingEmpty(_)
DropTrailingEmpty(lines) ==
    IF lines # <<>> /\ lines[Len(lines)] = <<>>
    THEN DropTrailingEmpty(SubSeq(lines, 1, Len(lines) - 1)) ELSE lines

\* '\n'.join(lines)
RECURSIVE JoinLines(_)
JoinLines(lines) ==
    IF lines = <<>> THEN <<>>
    ELSE IF Len(lines) = 1 THEN Head(lines)
    ELSE Head(lines) \o <<"\n">> \o JoinLines(Tail(lines))

\* re.sub(r'(\w+)-\s*\n\s*(\w+)', r'\1\2', text): m holds the end of group 1
\* and the start and the end of group 2 of a match at i, <<>> if none
RECURSIVE RejoinHyphens(_, _)
RejoinHyphens(s, i) ==
    IF i > Len(s) THEN <<>>
    ELSE LET m == (LET h == Skip(s, i, WordSyms)
                       g == SkipSpace(s, h + 1)
                   IN IF /\ h > i
                         /\ h <= Len(s) /\ s[h] = "-"
                         /\ LastNewline(s, h + 1, g - 1) > 0
                         /\ g <= Len(s) /\ s[g] \in WordSyms
                      THEN <<h - 1, g, Skip(s, g, WordSyms) - 1>>
                      ELSE <<>>) IN
         IF m # <<>>
         THEN SubSeq(s, i, m[1]) \o SubSeq(s, m[2], m[3])
                 \o RejoinHyphens(s, m[3] + 1)
         ELSE <<s[i]>> \o RejoinHyphens(s, i + 1)

\* end of the match of \n\s*[.,;:!?]+\s*\n that starts at i, 0 if none
StrayPunctEnd(s, i) ==
    LET j == SkipSpace(s, i + 1)
        k == Skip(s, j, {".", ",", ";", ":", "!", "?"})
        m == SkipSpace(s, k)
    IN IF s[i] = "\n" /\ k > j THEN LastNewline(s, k, m - 1) ELSE 0

\* text = re.sub(r'\n\s*[.,;:!?]+\s*\n', '\n', text)
RECURSIVE RemoveStrayPunct(_, _)
RemoveStrayPunct(s, i) ==
    IF i > Len(s) THEN <<>>
    ELSE IF StrayPunctEnd(s, i) > 0
         THEN <<"\n">> \o RemoveStrayPunct(s, StrayPunctEnd(s, i) + 1)
         ELSE <<s[i]>> \o RemoveStrayPunct(s, i + 1)

\* end of the match of \n\s*\n\s*\n+ that starts at i, 0 if none
BlankRunEnd(s, i) ==
    LET m == SkipSpace(s, i)
    IN IF s[i] = "\n"
          /\ Cardinality({k \in i..(m - 1) : s[k] = "\n"}) >= 3
       THEN LastNewline(s, i, m - 1) ELSE 0

\* text = re.sub(r'\n\s*\n\s*\n+', '\n\n', text)
RECURSIVE FinalCollapse(_, _)
FinalCollapse(s, i) ==
    IF i > Len(s) THEN <<>>
    ELSE IF BlankRunEnd(s, i) > 0
         THEN <<"\n", "\n">> \o FinalCollapse(s, BlankRunEnd(s, i) + 1)
         ELSE <<s[i]>> \o FinalCollapse(s, i + 1)

clean_extracted_text(t) ==
    IF t = <<>> THEN <<>>
    ELSE LET t1 == CollapseNewlines(t, 1)
             t2 == RemovePageNumbers(t1, 1)
             t3 == RemoveHeaderFooter(t2)
             t4 == CollapseSpaces(t3, 1)
             t5 == (LET lines == SplitLines(t4, 1, <<>>)
                        stripped == [n \in 1..Len(lines) |-> strip(lines[n])]
                    IN JoinLines(DropTrailingEmpty(DropLeadingEmpty(stripped))))
             t6 == RejoinHyphens(t5, 1)
             t7 == RemoveStrayPunct(t6, 1)
             t8 == FinalCollapse(t7, 1)
         IN strip(t8)

(***************************************************************************)
(* json.loads on a string of symbols.  A JSON value is a record [t, v]:    *)
(* t is the Python type json.loads returns, v the content (the symbols of  *)
(* a str, the items of a list, the <<key, value>> pairs of a dict).        *)
(***************************************************************************)
JStr(content) == [t |-> "str", v |-> content]
JList(items) == [t |-> "list", v |-> items]
JDict(pairs) == [t |-> "dict", v |-> pairs]

\* result of a decoding step: the value and the index after it
Decoded(val, next) == [ok |-> TRUE, val |-> val, next |-> next]
DecodeError == [ok |-> FALSE, val |-> [t |-> "NoneType", v |-> <<>>], next |-> 0]

\* json.decoder.WHITESPACE
JsonSpace == {" ", "\t", "\n", "\r"}

\* a double-quoted string at s[j]: up to the next quote, and no control
\* character inside (strict mode)
ParseString(s, j) ==
    LET e == Skip(s, j + 1, {c \in {s[k] : k \in 1..Len(s)} : c # "\""}) IN
    IF e > Len(s) THEN DecodeError
    ELSE IF \E k \in (j + 1)..(e - 1) : s[k] \in {"\n", "\t", "\r"}
         THEN DecodeError
         ELSE Decoded(JStr(SubSeq(s, j + 1, e - 1)), e + 1)

RECURSIVE ParseValue(_, _)
RECURSIVE ParseItems(_, _, _)
RECURSIVE ParseMembers(_, _, _)

\* JSONDecoder.scan_once at the first non-whitespace symbol at or after i
ParseValue(s, i) ==
    LET j == Skip(s, i, JsonSpace) IN
    IF j > Len(s) THEN DecodeError
    ELSE IF s[j] = "\"" THEN ParseString(s, j)
    ELSE IF s[j] = "[" THEN
        LET k == Skip(s, j + 1, JsonSpace) IN
        IF k <= Len(s) /\ s[k] = "]" THEN Decoded(JList(<<>>), k + 1)
        ELSE ParseItems(s, j + 1, <<>>)
    ELSE IF s[j] = "{" THEN
        LET k == Skip(s, j + 1, JsonSpace) IN
        IF k <= Len(s) /\ s[k] = "}" THEN Decoded(JDict(<<>>), k + 1)
        ELSE ParseMembers(s, j + 1, <<>>)
    ELSE IF s[j] \in DigitSyms
    THEN \* a number: a leading zero ends it
         Decoded([t |-> "int", v |-> <<>>],
                 IF s[j] = "0" THEN j + 1 ELSE Skip(s, j, DigitSyms))
    ELSE IF s[j] = "null" THEN Decoded([t |-> "NoneType", v |-> <<>>], j + 1)
    ELSE IF s[j] \in {"true", "false"}
    THEN Decoded([t |-> "bool", v |-> <<>>], j + 1)
    ELSE DecodeError

\* JSONArray: the items after "[" or after a comma
ParseItems(s, i, items) ==
    LET r == ParseValue(s, i)
        k == Skip(s, r.next, JsonSpace)
    IN IF ~r.ok \/ k > Len(s) THEN DecodeError
       ELSE IF s[k] = "," THEN ParseItems(s, k + 1, Append(items, r.val))
       ELSE IF s[k] = "]" THEN Decoded(JList(Append(items, r.val)), k + 1)
       ELSE DecodeError

\* JSONObject: the members after "{" or after a comma
ParseMembers(s, i, pairs) ==
    LET j == Skip(s, i, JsonSpace)
        key == ParseString(s, j)
        c == Skip(s, key.next, JsonSpace)
        r == ParseValue(s, c + 1)
        k == Skip(s, r.next, JsonSpace)
    IN IF j > Len(s) \/ s[j] # "\"" THEN DecodeError
       ELSE IF ~key.ok \/ c > Len(s) \/ s[c] # ":" THEN DecodeError
       ELSE IF ~r.ok \/ k > Len(s) THEN DecodeError
       ELSE IF s[k] = ","
            THEN ParseMembers(s, k + 1, Append(pairs, <<key.val.v, r.val>>))
       ELSE IF s[k] = "}"
            THEN Decoded(JDict(Append(pairs, <<key.val.v, r.val>>)), k + 1)
       ELSE DecodeError

\* json.loads(text): one value, then only whitespace; a result that is not
\* ok stands for json.JSONDecodeError
json_loads(s) ==
    LET r == ParseValue(s, 1) IN
    IF r.ok /\ Skip(s, r.next, JsonSpace) > Len(s) THEN r ELSE DecodeError

\* key in data, for a dict
HasKey(data, key) == \E n \in 1..Len(data.v) : data.v[n][1] = key

\* data[key]: the last member with that key wins
GetKey(data, key) ==
    LET ns == {n \in 1..Len(data.v) : data.v[n][1] = key}
    IN data.v[CHOOSE n \in ns : \A m \in ns : m <= n][2]

(***************************************************************************)
(* The response parser (main.py and services/llm_service.py)               *)
(***************************************************************************)
\* the outcome of a call: a returned list of flashcards or a raised error
Returned(cards) == [kind |-> "ok", msg |-> "", flashcards |-> cards]
Raised(kind, msg) == [kind |-> kind, msg |-> msg, flashcards |-> <<>>]

\* the markdown code fence, three backticks, as one symbol
Fence == "FENCE"

\* re.sub(Fence + r'(?:json)?\s*\n?', '', text)
RemoveFences_fenceOnly(s) == SelectSeq(s, LAMBDA c : c # Fence)

RemoveFences(s) ==
    LET \* position i lies in a match of the fence, "json" and \s*
        InFenceMatch(i) ==
            LET b == SkipSpaceBack(s, i) IN
            \/ s[i] = Fence
            \/ s[i] = "json" /\ i > 1 /\ s[i - 1] = Fence
            \/ /\ IsSpace(s[i])
               /\ b >= 1
               /\ \/ s[b] = Fence
                  \/ s[b] = "json" /\ b > 1 /\ s[b - 1] = Fence
        kept == SelectSeq([i \in 1..Len(s) |-> i],
                          LAMBDA i : ~InFenceMatch(i))
    IN [n \in 1..Len(kept) |-> s[kept[n]]]

\* cleaned.replace(Fence, '')
RemoveBackticks(s) == SelectSeq(s, LAMBDA c : c # Fence)

\* index of the "]" that ends the shortest match of \[\s*\{.*?\}\s*\]
\* starting at i, 0 if there is none
ArrayMatchEnd(s, i) ==
    LET k == SkipSpace(s, i + 1)
        ends == {j \in (k + 1)..Len(s) :
                    /\ s[j] = "}"
                    /\ SkipSpace(s, j + 1) <= Len(s)
                    /\ s[SkipSpace(s, j + 1)] = "]"}
    IN IF s[i] = "[" /\ k <= Len(s) /\ s[k] = "{" /\ ends # {}
       THEN SkipSpace(s, (CHOOSE j \in ends : \A m \in ends : j <= m) + 1)
       ELSE 0

\* re.search(r'\[\s*\{.*?\}\s*\]', text, re.DOTALL): the leftmost match as
\* <<start, end>>, or <<>> for None
SearchArray(s) ==
    LET starts == {i \in 1..Len(s) : ArrayMatchEnd(s, i) > 0}
        i == CHOOSE x \in starts : \A y \in starts : x <= y
    IN IF starts = {} THEN <<>> ELSE <<i, ArrayMatchEnd(s, i)>>

\* LLMService._clean_markdown
clean_markdown(t) == strip(RemoveBackticks(RemoveFences(t)))

\* LLMService._extract_json_array
extract_json_array(t) ==
    LET json_match == SearchArray(t) IN
    IF json_match # <<>> THEN SubSeq(t, json_match[1], json_match[2]) ELSE t

\* Flashcard(question=..., answer=...): the validator raises on a field that
\* is empty after stripping and returns the stripped fields otherwise
Flashcard(question, answer) ==
    IF question = <<>> \/ strip(question) = <<>>
       \/ answer = <<>> \/ strip(answer) = <<>>
    THEN <<>>
    ELSE <<[question |-> strip(question), answer |-> strip(answer)]>>

\* item.get(key, "")
ItemGet(item, key) == IF HasKey(item, key) THEN GetKey(item, key) ELSE JStr(<<>>)

\* the body of the loop for one item: the flashcards it appends.  A field
\* that is not a str makes .strip() raise, and the except clause skips the
\* item like the two continue statements do.
ConvertItem_unvalidated(item) ==
    IF item.t # "dict" THEN <<>>
    ELSE IF ItemGet(item, <<"question">>).t # "str" THEN <<>>
    ELSE IF ItemGet(item, <<"answer">>).t # "str" THEN <<>>
    ELSE <<[question |-> ItemGet(item, <<"question">>).v,
            answer |-> ItemGet(item, <<"answer">>).v]>>

ConvertItem(item) ==
    IF item.t # "dict" THEN <<>>
    ELSE IF ItemGet(item, <<"question">>).t # "str" THEN <<>>
    ELSE IF ItemGet(item, <<"answer">>).t # "str" THEN <<>>
    ELSE LET question == strip(ItemGet(item, <<"question">>).v)
             answer == strip(ItemGet(item, <<"answer">>).v)
         IN IF question = <<>> \/ answer = <<>> THEN <<>>
            ELSE Flashcard(question, answer)

\* for i, item in enumerate(data): ... flashcards.append(flashcard)
ConvertItems_break(items) ==
    LET bad == {n \in 1..Len(items) : ConvertItem(items[n]) = <<>>}
        stop == IF bad = {} THEN Len(items) + 1
                ELSE CHOOSE n \in bad : \A m \in bad : n <= m
    IN Concat([n \in 1..(stop - 1) |-> ConvertItem(items[n])])

ConvertItems(items) ==
    Concat([n \in 1..Len(items) |-> ConvertItem(items[n])])

\* main.py lines 372-381: unwrap {"flashcards": [...]}, then require a list.
\* The result is the data to convert, or the error raised.
main_normalize_noUnwrap(data) ==
    IF data.t = "dict" /\ ~HasKey(data, <<"flashcards">>)
    THEN [ok |-> FALSE, data |-> data, msg |-> "Unexpected response structure from AI"]
    ELSE IF data.t # "list"
    THEN [ok |-> FALSE, data |-> data, msg |-> "AI response is not a list of flashcards"]
    ELSE [ok |-> TRUE, data |-> data, msg |-> ""]

main_normalize(data) ==
    LET unwrapped == IF data.t = "dict" /\ HasKey(data, <<"flashcards">>)
                     THEN GetKey(data, <<"flashcards">>) ELSE data
    IN IF data.t = "dict" /\ ~HasKey(data, <<"flashcards">>)
       THEN [ok |-> FALSE, data |-> data, msg |-> "Unexpected response structure from AI"]
       ELSE IF unwrapped.t # "list"
       THEN [ok |-> FALSE, data |-> unwrapped, msg |-> "AI response is not a list of flashcards"]
       ELSE [ok |-> TRUE, data |-> unwrapped, msg |-> ""]

\* if len(flashcards) == 0: raise ValueError(...); return flashcards
RejectEmpty_missing(flashcards) == Returned(flashcards)

RejectEmpty(flashcards) ==
    IF Len(flashcards) = 0 THEN Raised("ValueError", "No valid flashcards could be extracted from AI response")
    ELSE Returned(flashcards)

\* except json.JSONDecodeError: raise ValueError(...)
OnDecodeError_asEmpty == Raised("ValueError", "No valid flashcards could be extracted from AI response")

OnDecodeError == Raised("ValueError", "AI returned invalid response format. Please try again.")

\* main.parse_flashcard_response
parse_flashcard_response(reply) ==
    LET defenced == strip(RemoveBackticks(RemoveFences(reply)))
        json_match == SearchArray(defenced)
        cleaned_text == IF json_match # <<>>
                        THEN SubSeq(defenced, json_match[1], json_match[2])
                        ELSE defenced
        decoded == json_loads(cleaned_text)
        norm == main_normalize(decoded.val)
    IN IF ~decoded.ok THEN OnDecodeError
       ELSE IF ~norm.ok THEN Raised("ValueError", norm.msg)
       ELSE RejectEmpty(ConvertItems(norm.data.v))

\* LLMService._normalize_response_structure: a dict with the key returns
\* data["flashcards"] as it is, without the list test
normalize_response_structure_noKeyTest(data) ==
    IF data.t = "dict" /\ HasKey(data, <<"flashcards">>)
    THEN [ok |-> TRUE, data |-> GetKey(data, <<"flashcards">>), msg |-> ""]
    ELSE IF data.t # "list"
    THEN [ok |-> FALSE, data |-> data, msg |-> "AI response is not a list of flashcards"]
    ELSE [ok |-> TRUE, data |-> data, msg |-> ""]

normalize_response_structure(data) ==
    IF data.t = "dict"
    THEN IF HasKey(data, <<"flashcards">>)
         THEN [ok |-> TRUE, data |-> GetKey(data, <<"flashcards">>), msg |-> ""]
         ELSE [ok |-> FALSE, data |-> data, msg |-> "Unexpected response structure from AI"]
    ELSE IF data.t # "list"
    THEN [ok |-> FALSE, data |-> data, msg |-> "AI response is not a list of flashcards"]
    ELSE [ok |-> TRUE, data |-> data, msg |-> ""]

\* LLMService._convert_to_flashcards: enumerate(data) yields the items of a
\* list, the characters of a str and the keys of a dict (none of them a
\* dict, so all skipped), and raises TypeError on anything else
convert_to_flashcards(data) ==
    IF data.t = "list" THEN Returned(ConvertItems(data.v))
    ELSE IF data.t \in {"str", "dict"} THEN Returned(<<>>)
    ELSE Raised("TypeError", "object is not iterable")

\* LLMService._parse_flashcard_response
LLMService_parse_flashcard_response(reply) ==
    LET cleaned_text == clean_markdown(reply)
        json_text == extract_json_array(cleaned_text)
        decoded == json_loads(json_text)
        norm == normalize_response_structure(decoded.val)
        converted == convert_to_flashcards(norm.data)
    IN IF ~decoded.ok THEN OnDecodeError
       ELSE IF ~norm.ok THEN Raised("ValueError", norm.msg)
       ELSE IF converted.kind # "ok" THEN converted
       ELSE RejectEmpty(converted.flashcards)

\* the outcome of a call that has not been made
NotCalled == [kind |-> "none", msg |-> "", flashcards |-> <<>>]

\* apart from the request of the given area, no request is being served:
\* the variables of every other area hold their values of construction
OthersIdle(area) ==
    /\ area # "chunk"
          => (text = <<>> /\ max_chars = 1 /\ chunks = <<>> /\ rechunked = <<>>)
    /\ area # "clean" => (raw = <<>> /\ cleaned = <<>> /\ recleaned = <<>>)
    /\ area # "generate"
          => (/\ impl = "main" /\ mode = "flashcards"
              /\ stage = 0 /\ parts = <<>> /\ response_text = <<>>
              /\ parsed = NotCalled /\ result = NotCalled /\ status = 0)
    /\ area # "choice" => (mcq_args = <<>> /\ mcq = <<>>)
    /\ area # "upload"
          => (/\ file = <<>> /\ form_text = <<>> /\ calls = <<>>
              /\ raw_text = <<>> /\ response = <<>>)
    /\ area # "prompt"
          => (/\ source_text = <<>> /\ num_cards = 1 /\ builder = "none"
              /\ truncated_text = <<>> /\ prompt = <<>>)
    /\ area # "service"
          => (/\ llm_service_instance = 0 /\ instances = 0
              /\ thread_pc = <<>> /\ thread_new = <<>>
              /\ thread_returned = <<>>
              /\ readers = {} /\ writers = {})

(***************************************************************************)
(* Specification of the chunker: one call on a text and a budget, then the *)
(* same call on each returned chunk.                                       *)
(***************************************************************************)
InitChunk ==
    /\ pc = "chunk_call"
    /\ text \in Strings({"a", "b", ".", " "}, MaxTextLen)
    /\ max_chars \in 1..MaxBudget
    /\ chunks = <<>>
    /\ rechunked = <<>>
    /\ OthersIdle("chunk")

ChunkText ==
    /\ pc = "chunk_call"
    /\ chunks' = chunk_text(text, max_chars)
    /\ pc' = "chunked"
    /\ UNCHANGED <<text, max_chars, rechunked>>
    /\ UNCHANGED <<cleanVars, genVars, choiceVars, uploadVars, promptVars,
                   serviceVars>>

Rechunk ==
    /\ pc = "chunked"
    /\ rechunked' = [i \in 1..Len(chunks) |-> chunk_text(chunks[i], max_chars)]
    /\ pc' = "rechunked"
    /\ UNCHANGED <<text, max_chars, chunks>>
    /\ UNCHANGED <<cleanVars, genVars, choiceVars, uploadVars, promptVars,
                   serviceVars>>

SpecChunk ==
    InitChunk
    /\ [][ChunkText
            \/ Rechunk]_vars

Chunked == pc \in {"chunked", "rechunked"}

\* C1: no chunk returned by chunk_text(t, b) is longer than b, whether it
\* was accumulated from several sentences or cut out of a long sentence.
C1_NoChunkExceedsBudget ==
    Chunked => \A i \in 1..Len(chunks) : Len(chunks[i]) <= max_chars

\* a chunk accumulated from two sentences that fills the budget exactly,
\* after an earlier chunk was flushed
C1_Witness ==
    /\ Chunked
    /\ Len(chunks) >= 2
    /\ \E i \in 1..Len(chunks) :
         /\ Len(chunks[i]) = max_chars - 1
         /\ \E j \in 2..Len(chunks[i]) :
               IsSpace(chunks[i][j]) /\ ((chunks[i][j - 1]) \in {".", "!", "?"})

\* C2: the non-whitespace symbols of the chunks, read in sequence order,
\* are exactly the non-whitespace symbols of the text, in the same order.
C2_ContentPreserved ==
    Chunked => NonSpace(Concat(chunks)) = NonSpace(text)

\* a text with both letters that is cut into several chunks
C2_Witness ==
    /\ Chunked
    /\ Len(chunks) >= 3
    /\ \E i, j \in 1..Len(text) : text[i] = "a" /\ text[j] = "b"
    /\ \E i \in 1..Len(text) : IsSpace(text[i])

\* C3: chunk_text applied with the same budget to a chunk c of its own
\* output returns the one-element list [c].
C3_RechunkIdempotent ==
    pc = "rechunked" =>
        \A i \in 1..Len(chunks) : rechunked[i] = <<chunks[i]>>

(***************************************************************************)
(* Specification of the cleaner: one call on a raw text, then a second     *)
(* call on the result of the first.                                        *)
(***************************************************************************)

InitClean ==
    /\ pc = "clean_call"
    /\ raw \in Strings({"a", "1", "-", "\n", " ", ".", "Page"}, MaxRawLen)
                \cup Strings({"a", "\n", "."}, MaxLinesLen)
    /\ cleaned = <<>>
    /\ recleaned = <<>>
    /\ OthersIdle("clean")

CleanText ==
    /\ pc = "clean_call"
    /\ cleaned' = clean_extracted_text(raw)
    /\ pc' = "cleaned"
    /\ UNCHANGED <<raw, recleaned>>
    /\ UNCHANGED <<chunkVars, genVars, choiceVars, uploadVars, promptVars,
                   serviceVars>>

CleanAgain ==
    /\ pc = "cleaned"
    /\ recleaned' = clean_extracted_text(cleaned)
    /\ pc' = "recleaned"
    /\ UNCHANGED <<raw, cleaned>>
    /\ UNCHANGED <<chunkVars, genVars, choiceVars, uploadVars, promptVars,
                   serviceVars>>

SpecClean ==
    InitClean
    /\ [][CleanText
            \/ CleanAgain]_vars

\* C4: clean_extracted_text is idempotent: cleaning the cleaned text again
\* returns it unchanged.
C4_CleanIdempotent == pc = "recleaned" => recleaned = cleaned

(***************************************************************************)
(* Specification of the generate path: the reply of the model arrives as   *)
(* stream parts that are appended to response_text; the stream fails, or   *)
(* it ends and the accumulated reply goes through the response parser of   *)
(* the implementation that serves the request.                             *)
(***************************************************************************)
\* the text of a JSON string, of an object member and of a flashcard object
Str(content) == <<"\"">> \o content \o <<"\"">>
Member(key, value) == Str(<<key>>) \o <<":">> \o value
Record(question, answer) ==
    <<"{">> \o Member("question", question) \o <<",">>
            \o Member("answer", answer) \o <<"}">>

R1 == Record(Str(<<"Q1">>), Str(<<"A1">>))

\* the text of an array whose elements are separated by sep
ListText(items, sep) ==
    <<"[">> \o Concat([n \in 1..Len(items) |->
                          IF n = 1 THEN items[n] ELSE sep \o items[n]])
            \o <<"]">>

ItemLists ==
    LET Items ==
            { R1,
              Record(Str(<<" ", "Q2", " ">>), Str(<<"A2">>)),
              Record(Str(<<>>), Str(<<"A1">>)),
              Record(Str(<<"Q1">>), Str(<<" ">>)),
              <<"{">> \o Member("question", Str(<<"Q1">>)) \o <<"}">>,
              Record(<<"null">>, Str(<<"A1">>)),
              Record(Str(<<"Q1">>), <<"5">>),
              Record(Str(<<"Q1">>), Str(<<"}", "]">>)),
              <<"5">> }
    IN  UNION {[1..k -> Items] : k \in 0..MaxItems}

\* the opening of the envelope {"flashcards": ...}
EnvOpen == <<"{">> \o Member("flashcards", <<>>)

\* part["message"]["content"] of the successive stream parts
PartContents ==
    LET Prefixes ==
            { <<>>, <<"Here", " ">>, <<Fence, "json", "\n">>, <<Fence, "\n">>,
              EnvOpen,
              <<"{">> \o Member("cards", <<>>),
              <<"{">> \o Member("cards", ListText(<<R1>>, <<",">>))
                     \o <<",">> \o Member("flashcards", <<>>) }
        Bodies ==
            {ListText(l, <<",">>) : l \in ItemLists}
            \cup {ListText(l, <<" ">>) : l \in ItemLists}
            \cup {SubSeq(ListText(l, <<",">>), 1,
                         Len(ListText(l, <<",">>)) - 1) : l \in ItemLists}
            \cup {<<"5">>, <<"null">>, Str(<<"Q1">>), R1, <<>>}
        Suffixes == { <<>>, <<" ", "Here">>, <<"\n", Fence>>, <<"}">> }
    IN  <<Prefixes, Bodies, Suffixes>>

\* what generate_flashcards / generate_flashcards_with_ollama does with the
\* outcome of the parser: an empty list and every exception that is not a
\* ValueError become a ValueError, a ValueError passes through
generate_outcome_reraise(p) ==
    IF p.kind = "ok" /\ Len(p.flashcards) = 0
    THEN Raised("ValueError", "No flashcards were generated. The AI response was empty or invalid.")
    ELSE p

generate_outcome(p) ==
    IF p.kind = "ok"
    THEN IF Len(p.flashcards) = 0
         THEN Raised("ValueError", "No flashcards were generated. The AI response was empty or invalid.")
         ELSE Returned(p.flashcards)
    ELSE IF p.kind = "ValueError" THEN p
    ELSE Raised("ValueError", "Flashcard generation failed")

\* the generate endpoint: the status of the response for an outcome of
\* generate_flashcards
generate_status(outcome) ==
    IF outcome.kind = "ok" THEN 200
    ELSE IF outcome.kind = "ValueError" THEN 422
    ELSE 500

InitGenerate ==
    /\ pc = "streaming"
    /\ impl \in {"main", "service"}
    /\ mode \in {"flashcards", "quiz"}
    /\ stage = 0
    /\ parts = <<>>
    /\ response_text = <<>>
    /\ parsed = NotCalled
    /\ result = NotCalled
    /\ status = 0
    /\ OthersIdle("generate")

\* if req.mode != "flashcards": raise HTTPException(status_code=501, ...)
ModeNotImplemented ==
    /\ pc = "streaming"
    /\ stage = 0
    /\ mode # "flashcards"
    /\ status' = 501
    /\ pc' = "done"
    /\ UNCHANGED <<impl, mode, stage, parts, response_text, parsed, result,
                   <<chunkVars, cleanVars, choiceVars, uploadVars, promptVars,
                   serviceVars>>>>

\* for part in client.chat(..., stream=True): response_text += content
StreamPart ==
    /\ pc = "streaming"
    /\ mode = "flashcards"
    /\ stage < Len(PartContents)
    /\ \E content \in PartContents[stage + 1] :
          /\ parts' = Append(parts, content)
          /\ response_text' = response_text \o content
    /\ stage' = stage + 1
    /\ UNCHANGED <<pc, impl, mode, parsed, result, status>>
    /\ UNCHANGED <<chunkVars, cleanVars, choiceVars, uploadVars, promptVars,
                   serviceVars>>

\* the stream raises: the parser is not called
StreamFail_parsePartial ==
    /\ pc = "streaming"
    /\ mode = "flashcards"
    /\ parsed' = parse_flashcard_response(response_text)
    /\ result' = Raised("ValueError", "Failed to communicate with AI service")
    /\ status' = generate_status(result')
    /\ pc' = "done"
    /\ UNCHANGED <<impl, mode, stage, parts, response_text>>
    /\ UNCHANGED <<chunkVars, cleanVars, choiceVars, uploadVars, promptVars,
                   serviceVars>>

StreamFail ==
    /\ pc = "streaming"
    /\ mode = "flashcards"
    /\ result' = Raised("ValueError", "Failed to communicate with AI service")
    /\ status' = generate_status(result')
    /\ pc' = "done"
    /\ UNCHANGED <<impl, mode, stage, parts, response_text, parsed,
                   <<chunkVars, cleanVars, choiceVars, uploadVars, promptVars,
                   serviceVars>>>>

\* main.py: the stream is exhausted, the reply is parsed
ParseMain ==
    /\ pc = "streaming"
    /\ impl = "main"
    /\ mode = "flashcards"
    /\ parsed' = parse_flashcard_response(response_text)
    /\ result' = generate_outcome(parsed')
    /\ status' = generate_status(result')
    /\ pc' = "done"
    /\ UNCHANGED <<impl, mode, stage, parts, response_text>>
    /\ UNCHANGED <<chunkVars, cleanVars, choiceVars, uploadVars, promptVars,
                   serviceVars>>

\* LLMService: the stream is exhausted, the reply is parsed
ParseService ==
    /\ pc = "streaming"
    /\ impl = "service"
    /\ mode = "flashcards"
    /\ parsed' = LLMService_parse_flashcard_response(response_text)
    /\ result' = generate_outcome(parsed')
    /\ status' = generate_status(result')
    /\ pc' = "done"
    /\ UNCHANGED <<impl, mode, stage, parts, response_text>>
    /\ UNCHANGED <<chunkVars, cleanVars, choiceVars, uploadVars, promptVars,
                   serviceVars>>

SpecGenerate ==
    InitGenerate
    /\ [][ModeNotImplemented
            \/ StreamPart
            \/ StreamFail
            \/ ParseMain
            \/ ParseService]_vars

\* the parser of the implementation serving the request
Parser(reply) ==
    IF impl = "main" THEN parse_flashcard_response(reply)
    ELSE LLMService_parse_flashcard_response(reply)

\* the parser has been called on response_text
Parsed == pc = "done" /\ parsed # NotCalled

\* the text handed to json.loads: the extracted array, or the whole
\* de-fenced reply
Handed == extract_json_array(clean_markdown(response_text))

\* an element that passes per-record validation: a mapping whose question
\* and answer are strings that are non-empty after trimming
ValidRecord(item) ==
    /\ item.t = "dict"
    /\ HasKey(item, <<"question">>) /\ HasKey(item, <<"answer">>)
    /\ GetKey(item, <<"question">>).t = "str"
    /\ GetKey(item, <<"answer">>).t = "str"
    /\ strip(GetKey(item, <<"question">>).v) # <<>>
    /\ strip(GetKey(item, <<"answer">>).v) # <<>>

\* the records of the valid elements of a list, in the order of the list
ValidRecords(items) ==
    LET valid == SelectSeq(items, ValidRecord)
    IN [n \in 1..Len(valid) |->
           [question |-> strip(GetKey(valid[n], <<"question">>).v),
            answer |-> strip(GetKey(valid[n], <<"answer">>).v)]]

\* the value decoded from the handed text when it is a list
DecodedList == json_loads(Handed).ok /\ json_loads(Handed).val.t = "list"

\* C5: the parser never returns an empty list: a successful return holds at
\* least one record, and a reply that decodes to a list with no valid
\* element (the empty array included) raises the ValueError of the empty
\* result.
C5_NeverEmptySuccess ==
    Parsed =>
        /\ parsed.kind = "ok" => Len(parsed.flashcards) >= 1
        /\ (DecodedList /\ ValidRecords(json_loads(Handed).val.v) = <<>>)
              => parsed = Raised("ValueError", "No valid flashcards could be extracted from AI response")

\* a list of one or more elements, none of them valid, was parsed
C5_Witness ==
    /\ Parsed
    /\ DecodedList
    /\ Len(json_loads(Handed).val.v) >= 1
    /\ ValidRecords(json_loads(Handed).val.v) = <<>>
    /\ parsed.msg = "No valid flashcards could be extracted from AI response"

\* C6: for a decoded list with at least one valid element the parser
\* returns exactly the records of the valid elements, in the order of the
\* list; every other element is dropped and does not fail the parse.
C6_PartialSuccess ==
    Parsed =>
        (DecodedList /\ ValidRecords(json_loads(Handed).val.v) # <<>>
            => parsed = Returned(ValidRecords(json_loads(Handed).val.v)))

\* a list whose first element is invalid and whose second is valid
C6_Witness ==
    /\ Parsed
    /\ DecodedList
    /\ Len(json_loads(Handed).val.v) = 2
    /\ ~ValidRecord(json_loads(Handed).val.v[1])
    /\ ValidRecord(json_loads(Handed).val.v[2])
    /\ parsed.kind = "ok"
    /\ Len(parsed.flashcards) = 1

\* the reply, de-fenced, is a JSON object without the key flashcards
ReplyIsMappingWithoutKey ==
    LET d == json_loads(clean_markdown(response_text))
    IN d.ok /\ d.val.t = "dict" /\ ~HasKey(d.val, <<"flashcards">>)

C8_NonListFails ==
    Parsed =>
        LET d == json_loads(Handed)
        IN (/\ d.ok
            /\ ~(d.val.t = "dict" /\ ~HasKey(d.val, <<"flashcards">>))
            /\ (IF (d.val).t = "dict" /\ HasKey((d.val), <<"flashcards">>)
                THEN GetKey((d.val), <<"flashcards">>) ELSE (d.val)).t # "list")
              => parsed = Raised("ValueError", "AI response is not a list of flashcards")

\* the outcome that consists of the valid records of a list
OutcomeOfList(items) ==
    IF ValidRecords(items) = <<>>
    THEN Raised("ValueError", "No valid flashcards could be extracted from AI response")
    ELSE Returned(ValidRecords(items))

\* C9 as stated: when the reply is a mapping whose key flashcards holds a
\* list, the parser returns the valid records of that list, in order.
C9_EnvelopeYieldsItsList ==
    Parsed =>
        LET d == json_loads(clean_markdown(response_text))
        IN (/\ d.ok
            /\ d.val.t = "dict"
            /\ HasKey(d.val, <<"flashcards">>)
            /\ GetKey(d.val, <<"flashcards">>).t = "list")
              => parsed = OutcomeOfList(GetKey(d.val, <<"flashcards">>).v)

\* the text of the value in a reply {"flashcards": value}
EnvelopeBody ==
    SubSeq(response_text, Len(EnvOpen) + 1, Len(response_text) - 1)

\* the reply is a mapping whose only key is flashcards and holds a list
ReplyIsSoleKeyEnvelope ==
    /\ Len(response_text) > Len(EnvOpen)
    /\ SubSeq(response_text, 1, Len(EnvOpen)) = EnvOpen
    /\ response_text[Len(response_text)] = "}"
    /\ json_loads(EnvelopeBody).ok
    /\ json_loads(EnvelopeBody).val.t = "list"

\* C9 amended: when the reply is a mapping whose only key is flashcards and
\* whose value is a list, the outcome of the parser is its outcome on the
\* text of that list alone.
C9_SoleKeyEnvelopeAsListAlone ==
    Parsed => (ReplyIsSoleKeyEnvelope => parsed = Parser(EnvelopeBody))

\* an envelope that is decoded as a whole and unwrapped, with a valid and
\* an invalid element in its list
C9_Witness ==
    /\ Parsed
    /\ ReplyIsSoleKeyEnvelope
    /\ SearchArray(response_text) = <<>>
    /\ Len(json_loads(EnvelopeBody).val.v) = 2
    /\ parsed.kind = "ok"
    /\ Len(parsed.flashcards) = 1

\* C10: when the handed text (the extracted array, or the whole de-fenced
\* reply) is not valid JSON, the parser raises the ValueError of the
\* invalid response format.
C10_InvalidJsonFails ==
    Parsed =>
        (~json_loads(Handed).ok
            => parsed = Raised("ValueError", "AI returned invalid response format. Please try again."))

\* a reply of prose only was parsed
C10_Witness ==
    /\ Parsed
    /\ response_text # <<>>
    /\ \A i \in 1..Len(response_text) : response_text[i] \in {"Here", " "}
    /\ ~json_loads(Handed).ok
    /\ parsed.msg = "AI returned invalid response format. Please try again."

FenceClose == <<"\n", Fence>>

\* the reply is a body wrapped in the fence that opens with open
Fenced(open) ==
    /\ Len(response_text) >= Len(open) + Len(FenceClose)
    /\ SubSeq(response_text, 1, Len(open)) = open
    /\ SubSeq(response_text, Len(response_text) - Len(FenceClose) + 1,
              Len(response_text)) = FenceClose

\* C11: a reply that is a body wrapped in a code fence (an opening fence,
\* tagged json or not, and a newline; a newline and a closing fence) has
\* the parser outcome of the body without the fence.
C11_FenceIrrelevant ==
    Parsed =>
        \A open \in {<<Fence, "json", "\n">>, <<Fence, "\n">>} :
            Fenced(open) =>
                parsed = Parser(SubSeq(response_text, Len(open) + 1,
                                       Len(response_text) - Len(FenceClose)))

\* a fenced array that is decoded as a whole (array extraction finds no
\* array of objects in it) and yields a record
C11_Witness ==
    /\ Parsed
    /\ Fenced(<<Fence, "json", "\n">>)
    /\ SearchArray(clean_markdown(response_text)) = <<>>
    /\ parsed.kind = "ok"

\* the text between the prose and the commentary
NoisyBody ==
    SubSeq(response_text, Len(<<"Here", " ">>) + 1,
           Len(response_text) - Len(<<" ", "Here">>))

\* the reply is prose, then a JSON array of one or more objects, then
\* commentary
ReplyIsArrayInNoise ==
    /\ Len(response_text) >= Len(<<"Here", " ">>) + Len(<<" ", "Here">>)
    /\ SubSeq(response_text, 1, Len(<<"Here", " ">>)) = <<"Here", " ">>
    /\ SubSeq(response_text, Len(response_text) - Len(<<" ", "Here">>) + 1,
              Len(response_text)) = <<" ", "Here">>
    /\ json_loads(NoisyBody).ok
    /\ json_loads(NoisyBody).val.t = "list"
    /\ Len(json_loads(NoisyBody).val.v) >= 1
    /\ \A n \in 1..Len(json_loads(NoisyBody).val.v) :
          json_loads(NoisyBody).val.v[n].t = "dict"

\* C12: when the reply is prose, an array of record objects and trailing
\* commentary, the text handed to json.loads is that array, and the outcome
\* is the valid records of the array, the outcome of parsing the array
\* alone.
C12_ArrayRecoveredFromNoise ==
    Parsed =>
        (ReplyIsArrayInNoise =>
            /\ Handed = NoisyBody
            /\ parsed = OutcomeOfList(json_loads(NoisyBody).val.v)
            /\ parsed = Parser(NoisyBody))

(***************************************************************************)
(* Specification of the choice-type record: one construction of a          *)
(* MultipleChoiceQuestion from keyword arguments.                          *)
(***************************************************************************)
MaxOptions == 5

\* validate_not_empty: the stripped value, or <<>> for a raised ValueError
\* (the stripped value of an accepted field is never empty)
validate_not_empty(v) == IF v = <<>> \/ strip(v) = <<>> THEN <<>> ELSE strip(v)

\* validate_options: the stripped options of an accepted list
validate_options(v) == [n \in 1..Len(v) |-> strip(v[n])]

\* MultipleChoiceQuestion(question=..., options=..., correct_answer=...):
\* the field validators run, and the instance holds what they return
MultipleChoiceQuestion(question, options, correct_answer) ==
    IF \/ validate_not_empty(question) = <<>>
       \/ ~(/\ Len(options) = 4
            /\ ~\E n \in 1..Len(options) : strip(options[n]) = <<>>)
       \/ validate_not_empty(correct_answer) = <<>>
    THEN [kind |-> "ValidationError"]
    ELSE [kind |-> "MultipleChoiceQuestion",
          question |-> validate_not_empty(question),
          options |-> validate_options(options),
          correct_answer |-> validate_not_empty(correct_answer)]

\* the strings given as question, option and correct answer
FieldTexts == {<<>>, <<" ">>, <<"a">>, <<"b">>, <<" ", "a">>, <<"A">>}

InitChoice ==
    /\ pc = "construct"
    /\ mcq_args \in [question : {<<>>, <<"a">>},
                     options : UNION {[1..k -> FieldTexts] : k \in 0..MaxOptions},
                     correct_answer : FieldTexts]
    /\ mcq = <<>>
    /\ OthersIdle("choice")

Construct ==
    /\ pc = "construct"
    /\ mcq' = MultipleChoiceQuestion(mcq_args.question, mcq_args.options,
                                     mcq_args.correct_answer)
    /\ pc' = "constructed"
    /\ UNCHANGED <<mcq_args>>
    /\ UNCHANGED <<chunkVars, cleanVars, genVars, uploadVars, promptVars,
                   serviceVars>>

SpecChoice == InitChoice /\ [][Construct]_vars

\* C13: every constructed MultipleChoiceQuestion has exactly 4 options, all
\* non-empty after trimming, and a correct_answer that is one of them
\* (case-sensitively); with a correct_answer that is not among the options
\* the construction fails.
C13_ChoiceRecordClosed ==
    (pc = "constructed" /\ mcq # [kind |-> "ValidationError"]) =>
        /\ Len(mcq.options) = 4
        /\ \A n \in 1..4 : strip(mcq.options[n]) # <<>>
        /\ \E n \in 1..4 : mcq.options[n] = mcq.correct_answer

\* a required field of a record: not empty, no whitespace at either end
CleanField(v) == v # <<>> /\ ~IsSpace(v[1]) /\ ~IsSpace(v[Len(v)])

\* C14: every record of a returned batch has a question and an answer that
\* are non-empty and have no leading or trailing whitespace, in the outcome
\* of the parser and in the outcome of the generate call.
C14_ReturnedRecordsClean ==
    /\ \A n \in 1..Len(parsed.flashcards) :
          /\ CleanField(parsed.flashcards[n].question)
          /\ CleanField(parsed.flashcards[n].answer)
    /\ \A n \in 1..Len(result.flashcards) :
          /\ CleanField(result.flashcards[n].question)
          /\ CleanField(result.flashcards[n].answer)

\* a batch was returned for a reply whose question had spaces around it,
\* next to a record with a blank answer
C14_Witness ==
    /\ Parsed
    /\ result.kind = "ok"
    /\ \E n \in 1..Len(result.flashcards) :
          result.flashcards[n].question = <<"Q2">>
    /\ \E i \in 1..(Len(response_text) - 2) :
          SubSeq(response_text, i, i + 2) = <<"\"", " ", "\"">>

\* C15: response_text is the concatenation of the stream parts in the
\* order of their arrival; the parser is called only in the step that ends
\* the stream, on the whole accumulated text, and nothing is received
\* after it; when the stream fails the parser is not called and the call
\* has ended with the error.
C15_ParseOnlyCompleteStream ==
    /\ [](response_text = Concat(parts))
    /\ [](parsed # NotCalled => pc = "done" /\ parsed = Parser(response_text))
    /\ [](result = Raised("ValueError", "Failed to communicate with AI service")
            => pc = "done" /\ parsed = NotCalled)
    /\ [][parsed' # parsed
            => pc = "streaming" /\ pc' = "done"
               /\ UNCHANGED <<parts, response_text>>]_vars
    /\ [][pc = "done" => UNCHANGED vars]_vars

\* the stream failed after two parts with text had been accumulated
C15_Witness ==
    /\ pc = "done"
    /\ Len(parts) = 2
    /\ parts[1] # <<>> /\ parts[2] # <<>>
    /\ result = Raised("ValueError", "Failed to communicate with AI service")
    /\ parsed = NotCalled

\* C16: a content-generation failure (the reply was received and the parser
\* failed on it) does not get the status that the generate endpoint gives
\* to a communication failure.
C16_FailureKindsDistinct ==
    (Parsed /\ parsed.kind # "ok") =>
        status # generate_status(Raised("ValueError", "Failed to communicate with AI service"))

(***************************************************************************)
(* Specification of the upload path: one request with a file, a text form  *)
(* field or both, served by the upload endpoint of main.py or by the       *)
(* functions of PDFService.                                                *)
(***************************************************************************)
MaxPages == 3

MAX_FILE_SIZE_MB == 10
MAX_FILE_SIZE_BYTES == MAX_FILE_SIZE_MB * 1024 * 1024
MAX_TEXT_LENGTH == 500000
CHUNK_SIZE_CHARS == 2000

\* len(text), in characters
CharLen(s) ==
    Len(s) + MAX_TEXT_LENGTH * Cardinality({i \in 1..Len(s) : s[i] = "LONGWORD"})

\* PDFService._is_valid_file_type, and the same test in main.upload
is_valid_file_type(filename) ==
    LET lower == [i \in 1..Len(filename) |->
                    IF filename[i] = "NOTES" THEN "notes"
                    ELSE IF filename[i] = "PDF" THEN "pdf"
                    ELSE filename[i]]
        suffix == <<".", "pdf">>
    IN  \* filename.lower().endswith('.pdf')
        /\ Len(lower) >= Len(suffix)
        /\ SubSeq(lower, Len(lower) - Len(suffix) + 1, Len(lower)) = suffix

\* the outcome of a call that can raise: a text, or an exception
TextResult(t) == [ok |-> TRUE, text |-> t]

\* extract_text_from_pdf: the text of every page, with a space after every
\* page but the last; fitz raises on content that is not a document
extract_text_from_pdf_spaceAfterEach(content) ==
    IF ~content.decodable THEN [ok |-> FALSE, text |-> <<>>]
    ELSE TextResult(Concat([n \in 1..Len(content.pages) |->
                               content.pages[n] \o <<" ">>]))

extract_text_from_pdf(content) ==
    IF ~content.decodable THEN [ok |-> FALSE, text |-> <<>>]
    ELSE TextResult(Concat([n \in 1..Len(content.pages) |->
                               IF n < Len(content.pages)
                               THEN content.pages[n] \o <<" ">>
                               ELSE content.pages[n]]))

\* process_pdf_content: extract, then clean; every exception is raised
\* again as an Exception
process_pdf_content_swallow(content) ==
    IF ~extract_text_from_pdf(content).ok THEN TextResult(<<>>)
    ELSE TextResult(clean_extracted_text(extract_text_from_pdf(content).text))

process_pdf_content(content) ==
    IF ~extract_text_from_pdf(content).ok THEN [ok |-> FALSE, text |-> <<>>]
    ELSE TextResult(clean_extracted_text(extract_text_from_pdf(content).text))

\* if not extracted_text.strip()
NoUsableText_never(extracted_text) == FALSE

NoUsableText(extracted_text) == strip(extracted_text) = <<>>

\* raise HTTPException(status_code=..., detail=...)
HTTPException(status_code, detail) ==
    [status |-> status_code, detail |-> detail, extracted_text |-> <<>>,
     chunks |-> <<>>, file_info |-> <<>>]

\* the successful response; file_info is <<>> for None
UploadResponse(extracted_text, chunks_, file_info) ==
    [status |-> 200, detail |-> "", extracted_text |-> extracted_text,
     chunks |-> chunks_, file_info |-> file_info]

FileInfo(f, extracted_text) ==
    <<[filename |-> f.filename, size_bytes |-> f.size,
       extracted_chars |-> CharLen(extracted_text), processed |-> TRUE]>>

\* the steps on a file that main.upload and
\* PDFService.validate_and_process_upload share, from the extraction on: the
\* response and the calls made, where processed is what process_pdf_content
\* returned or raised and chunked tells whether chunk_text follows a success
ProcessExtracted(f, chunked, processed) ==
    IF ~processed.ok
    THEN [resp |-> HTTPException(422, "Unable to process PDF"),
          calls |-> <<"read", "process_pdf_content">>]
    ELSE IF NoUsableText(processed.text)
    THEN [resp |-> HTTPException(422, "No text could be extracted from the PDF"),
          calls |-> <<"read", "process_pdf_content">>]
    ELSE IF chunked
    THEN [resp |-> UploadResponse(processed.text,
                      chunk_text(processed.text, CHUNK_SIZE_CHARS),
                      FileInfo(f, processed.text)),
          calls |-> <<"read", "process_pdf_content", "chunk_text">>]
    ELSE [resp |-> UploadResponse(processed.text, <<>>,
                                  FileInfo(f, processed.text)),
          calls |-> <<"read", "process_pdf_content">>]

\* the file branch of main.upload (chunked) and
\* PDFService.validate_and_process_upload (not chunked): the tests before
\* the extraction
ProcessFile(f, chunked) ==
    IF ~is_valid_file_type(f.filename)
    THEN [resp |-> HTTPException(400, "Only PDF files are supported"),
          calls |-> <<>>]
    ELSE IF ~f.readable
    THEN [resp |-> HTTPException(500, "Failed to read uploaded file. Please try again."),
          calls |-> <<"read">>]
    ELSE IF f.size > MAX_FILE_SIZE_BYTES
    THEN [resp |-> HTTPException(413, "File size exceeds 10MB limit"),
          calls |-> <<"read">>]
    ELSE IF f.size = 0
    THEN [resp |-> HTTPException(400, "Uploaded file is empty"),
          calls |-> <<"read">>]
    ELSE ProcessExtracted(f, chunked, process_pdf_content(f))

\* main.upload
upload(f, t) ==
    IF ~f.given /\ (~t.given \/ strip(t.v) = <<>>)
    THEN [resp |-> HTTPException(400, "Please provide either a PDF file or text input"), calls |-> <<>>]
    ELSE IF f.given THEN ProcessFile(f, TRUE)
    ELSE IF CharLen(strip(t.v)) > MAX_TEXT_LENGTH
    THEN [resp |-> HTTPException(413, "Text exceeds 500000 character limit"), calls |-> <<>>]
    ELSE [resp |-> UploadResponse(strip(t.v),
                      chunk_text(strip(t.v), CHUNK_SIZE_CHARS), <<>>),
          calls |-> <<"chunk_text">>]

\* PDFService.process_text_input
process_text_input(t) ==
    IF strip(t) = <<>> THEN HTTPException(400, "Text input cannot be empty")
    ELSE IF CharLen(strip(t)) > MAX_TEXT_LENGTH
    THEN HTTPException(413, "Text exceeds 500000 character limit")
    ELSE UploadResponse(strip(t), <<>>, <<>>)

InitUpload ==
    LET Names == {<<"notes", ".", "pdf">>, <<"NOTES", ".", "PDF">>,
                  <<"notes", ".", "txt">>}
        PageTexts == {<<>>, <<" ">>, <<"a">>, <<"1">>}
        Documents == UNION {[1..k -> PageTexts] : k \in 0..MaxPages}
        NoFile == [given |-> FALSE, filename |-> <<>>, readable |-> TRUE,
                   size |-> 0, decodable |-> FALSE, pages |-> <<>>]
        \* documents, content that is no document, and a document over the
        \* size limit
        Files ==
            [given : {TRUE}, filename : Names, readable : BOOLEAN,
             size : {1, MAX_FILE_SIZE_BYTES},
             decodable : {TRUE}, pages : Documents]
            \cup
            [given : {TRUE}, filename : Names, readable : BOOLEAN,
             size : {0, 1, MAX_FILE_SIZE_BYTES, MAX_FILE_SIZE_BYTES + 1},
             decodable : {FALSE}, pages : {<<>>}]
            \cup
            [given : {TRUE}, filename : {<<"notes", ".", "pdf">>},
             readable : {TRUE}, size : {MAX_FILE_SIZE_BYTES + 1},
             decodable : {TRUE}, pages : {<<<<"a">>>>}]
        FormTexts ==
            {[given |-> FALSE, v |-> <<>>]}
            \cup [given : {TRUE},
                  v : {<<>>, <<" ">>, <<"a">>, <<" ", "a", " ">>,
                       <<"a", " ", "b">>, <<"LONGWORD">>}]
    IN  /\ pc = "upload_call"
        /\ file \in Files \cup {NoFile}
        /\ form_text \in FormTexts
        /\ calls = <<>> /\ raw_text = <<>> /\ response = <<>>
        /\ OthersIdle("upload")

\* what extract_text_from_pdf returned, if process_pdf_content was called
ExtractorResult(made) ==
    IF \E n \in 1..Len(made) : made[n] = "process_pdf_content"
    THEN <<extract_text_from_pdf(file)>> ELSE <<>>

\* POST /upload in main.py
Upload ==
    /\ pc = "upload_call"
    /\ \E outcome \in {upload(file, form_text)} :
          /\ response' = outcome.resp
          /\ calls' = outcome.calls
    /\ raw_text' = ExtractorResult(calls')
    /\ pc' = "responded"
    /\ UNCHANGED <<file, form_text>>
    /\ UNCHANGED <<chunkVars, cleanVars, genVars, choiceVars, promptVars,
                   serviceVars>>

\* PDFService.validate_and_process_upload(file)
ValidateAndProcessUpload ==
    /\ pc = "upload_call"
    /\ file.given
    /\ \E outcome \in {ProcessFile(file, FALSE)} :
          /\ response' = outcome.resp
          /\ calls' = outcome.calls
    /\ raw_text' = ExtractorResult(calls')
    /\ pc' = "responded"
    /\ UNCHANGED <<file, form_text>>
    /\ UNCHANGED <<chunkVars, cleanVars, genVars, choiceVars, promptVars,
                   serviceVars>>

\* PDFService.process_text_input(text)
ProcessTextInput ==
    /\ pc = "upload_call"
    /\ ~file.given
    /\ form_text.given
    /\ response' = process_text_input(form_text.v)
    /\ pc' = "responded"
    /\ UNCHANGED <<file, form_text, calls, raw_text>>
    /\ UNCHANGED <<chunkVars, cleanVars, genVars, choiceVars, promptVars,
                   serviceVars>>

SpecUpload ==
    InitUpload
    /\ [][Upload
            \/ ValidateAndProcessUpload
            \/ ProcessTextInput]_vars

Responded == pc = "responded"

\* a collaborator was called while the request was served
Called(name) == \E n \in 1..Len(calls) : calls[n] = name

\* the file passed the tests of name, reading and size
FileAccepted ==
    /\ file.given
    /\ is_valid_file_type(file.filename)
    /\ file.readable
    /\ file.size > 0
    /\ file.size <= MAX_FILE_SIZE_BYTES

\* C17: every successful upload response has an extracted_text that is
\* non-empty after trimming; an accepted file that is decoded and whose
\* cleaned text is empty or blank ends with 422 NoTextExtracted without a
\* call of chunk_text; without a file, an absent, empty or blank text is
\* rejected with 400.
C17_ExtractedTextNonEmpty ==
    Responded =>
        /\ response.status = 200 => strip(response.extracted_text) # <<>>
        /\ (FileAccepted /\ file.decodable
              /\ strip(clean_extracted_text(raw_text[1].text)) = <<>>)
              => /\ response = HTTPException(422, "No text could be extracted from the PDF")
                 /\ ~Called("chunk_text")
        /\ (~file.given /\ strip(form_text.v) = <<>>)
              => response.status = 400

\* a document with a page that holds only a page number was decoded and
\* ended with NoTextExtracted
C17_Witness ==
    /\ Responded
    /\ FileAccepted /\ file.decodable
    /\ raw_text # <<>> /\ raw_text[1].text # <<>>
    /\ strip(raw_text[1].text) # <<>>
    /\ response = HTTPException(422, "No text could be extracted from the PDF")

\* the file has an accepted name and its content was read
FileRead == file.given /\ is_valid_file_type(file.filename) /\ file.readable

\* C18 as stated: for a file with an accepted name, content of length zero
\* is rejected with 400 'Uploaded file is empty' and the extractor is not
\* called; every non-empty content that is no document ends with 422
\* ExtractionFailed.
C18_EmptyOrUndecodableFile ==
    Responded =>
        /\ (FileRead /\ file.size = 0)
              => /\ response = HTTPException(400, "Uploaded file is empty")
                 /\ ~Called("process_pdf_content")
                 /\ raw_text = <<>>
        /\ (FileRead /\ file.size > 0 /\ ~file.decodable)
              => response = HTTPException(422, "Unable to process PDF")

\* C18 amended: the same, for non-empty content that is no document and is
\* not larger than the size limit (larger content is rejected with 413
\* before the extractor is called).
C18_EmptyOrUndecodableFileWithinLimit ==
    Responded =>
        /\ (FileRead /\ file.size = 0)
              => /\ response = HTTPException(400, "Uploaded file is empty")
                 /\ ~Called("process_pdf_content")
                 /\ raw_text = <<>>
        /\ (FileAccepted /\ ~file.decodable)
              => response = HTTPException(422, "Unable to process PDF")
        /\ (FileRead /\ file.size > MAX_FILE_SIZE_BYTES)
              => /\ response = HTTPException(413, "File size exceeds 10MB limit")
                 /\ ~Called("process_pdf_content")

\* content of the largest accepted size that is no document was handed to
\* the extractor, which raised
C18_Witness ==
    /\ Responded
    /\ FileAccepted /\ ~file.decodable
    /\ file.size = MAX_FILE_SIZE_BYTES
    /\ raw_text = <<[ok |-> FALSE, text |-> <<>>]>>
    /\ response = HTTPException(422, "Unable to process PDF")

\* text(p1) + ' ' + text(p2) + ' ' + ... + text(pn)
RECURSIVE JoinPages(_)
JoinPages(pages) ==
    IF pages = <<>> THEN <<>>
    ELSE IF Len(pages) = 1 THEN pages[1]
    ELSE pages[1] \o <<" ">> \o JoinPages(Tail(pages))

\* C19: the raw text of a document is the texts of its pages in order with
\* exactly one space between two consecutive pages and none after the last;
\* a document without pages gives the empty string.
C19_PagesJoinedBySingleSpace ==
    (Responded /\ raw_text # <<>> /\ file.decodable) =>
        /\ raw_text[1] = TextResult(JoinPages(file.pages))
        /\ file.pages = <<>> => raw_text[1].text = <<>>
        /\ Len(raw_text[1].text) =
              Len(Concat(file.pages))
              + (IF file.pages = <<>> THEN 0 ELSE Len(file.pages) - 1)

\* a document of three pages, the last of them empty, was extracted
C19_Witness ==
    /\ Responded
    /\ raw_text # <<>> /\ file.decodable
    /\ Len(file.pages) = 3
    /\ file.pages[1] # <<>> /\ file.pages[3] = <<>>
    /\ raw_text[1].text[Len(raw_text[1].text)] = " "

(***************************************************************************)
(* The prompt builders.  LLMService._build_flashcard_prompt,               *)
(* generate_flashcards_with_ollama and LLMGenerationRequest cut the source *)
(* text to its first 5000 characters.  A text of that size is written as a *)
(* sequence of runs [c |-> character, n |-> how many times], so that the   *)
(* slice works on true lengths.                                            *)
(***************************************************************************)
MaxRuns == 2

max_text_length == 5000
MIN_FLASHCARD_COUNT == 1
DEFAULT_FLASHCARD_COUNT == 5
MAX_FLASHCARD_COUNT == 20

Run(c, n) == [c |-> c, n |-> n]

\* len(text)
RECURSIVE RunLen(_)
RunLen(runs) ==
    IF runs = <<>> THEN 0 ELSE runs[1].n + RunLen(Tail(runs))

\* the same string with no empty run and no two neighbouring runs of one
\* character
RECURSIVE Norm(_)
Norm(runs) ==
    IF runs = <<>> THEN <<>>
    ELSE LET rest == Norm(Tail(runs)) IN
         IF runs[1].n = 0 THEN rest
         ELSE IF rest # <<>> /\ rest[1].c = runs[1].c
              THEN <<Run(runs[1].c, runs[1].n + rest[1].n)>> \o Tail(rest)
              ELSE <<runs[1]>> \o rest

\* a slice that cuts nothing
Slice_keepAll(runs, m) == runs

\* text[:m] for m >= 0
RECURSIVE Slice(_, _)
Slice(runs, m) ==
    IF runs = <<>> \/ m = 0 THEN <<>>
    ELSE IF runs[1].n <= m
         THEN <<runs[1]>> \o Slice(Tail(runs), m - runs[1].n)
         ELSE <<Run(runs[1].c, m)>>

\* str(n) for n >= 0
RECURSIVE DecimalText(_)
DecimalText(n) ==
    LET digit == <<"0", "1", "2", "3", "4", "5", "6", "7", "8", "9">>[(n % 10) + 1]
    IN  IF n < 10 THEN <<Run(digit, 1)>>
        ELSE DecimalText(n \div 10) \o <<Run(digit, 1)>>

Instructions == " educational flashcards ... Text to analyze:\n"

\* the f-string with num_cards and the text put in
Template(n, embedded) ==
    <<Run("Generate exactly ", 1)>> \o DecimalText(n)
        \o <<Run(Instructions, 1)>> \o embedded \o <<Run("\n", 1)>>

\* LLMService._build_flashcard_prompt: the text it embeds
service_truncated_text(t) ==
    IF RunLen(t) > max_text_length THEN Slice(t, max_text_length) ELSE t

\* LLMGenerationRequest.get_truncated_text
get_truncated_text(t) ==
    IF RunLen(t) <= max_text_length THEN t ELSE Slice(t, max_text_length)

InitPrompt ==
    LET \* texts around the limit, in runs of 1, 2, 4999, 5000 and 5001
        \* characters
        RunLengths ==
            {1, 2, max_text_length - 1, max_text_length, max_text_length + 1}
        Runs == {Run(c, n) : c \in {"a", "b"}, n \in RunLengths}
    IN  /\ pc = "start"
        /\ source_text \in UNION {[1..k -> Runs] : k \in 0..MaxRuns}
        /\ num_cards \in {MIN_FLASHCARD_COUNT, DEFAULT_FLASHCARD_COUNT,
                          MAX_FLASHCARD_COUNT}
        /\ builder = "none" /\ truncated_text = <<>> /\ prompt = <<>>
        /\ OthersIdle("prompt")

\* LLMService._build_flashcard_prompt(text, num_cards)
BuildFlashcardPrompt ==
    /\ pc = "start"
    /\ builder' = "service"
    /\ truncated_text' = service_truncated_text(source_text)
    /\ prompt' = (Template(num_cards, service_truncated_text(source_text)))
    /\ pc' = "done"
    /\ UNCHANGED <<source_text, num_cards>>
    /\ UNCHANGED <<chunkVars, cleanVars, genVars, choiceVars, uploadVars,
                   serviceVars>>

\* the prompt of generate_flashcards_with_ollama(text, num_cards)
MainPrompt ==
    /\ pc = "start"
    /\ builder' = "main"
    /\ truncated_text' = Slice(source_text, 5000)
    /\ prompt' = (Template(num_cards, Slice(source_text, 5000)))
    /\ pc' = "done"
    /\ UNCHANGED <<source_text, num_cards>>
    /\ UNCHANGED <<chunkVars, cleanVars, genVars, choiceVars, uploadVars,
                   serviceVars>>

\* LLMGenerationRequest(text=..., num_items=...).get_truncated_text()
GetTruncatedText ==
    /\ pc = "start"
    /\ builder' = "request"
    /\ truncated_text' = get_truncated_text(source_text)
    /\ prompt' = <<>>
    /\ pc' = "done"
    /\ UNCHANGED <<source_text, num_cards>>
    /\ UNCHANGED <<chunkVars, cleanVars, genVars, choiceVars, uploadVars,
                   serviceVars>>

SpecPrompt ==
    InitPrompt
    /\ [][BuildFlashcardPrompt
            \/ MainPrompt
            \/ GetTruncatedText]_vars

\* the text a builder that ran has put in its prompt, or has returned
EmbeddedText ==
    LET at == CHOOSE i \in 1..Len(prompt) : prompt[i].c = Instructions
    IN  IF builder = "request" THEN truncated_text
        ELSE SubSeq(prompt, at + 1, Len(prompt) - 1)

\* p is a prefix of t, both without empty or mergeable runs
RECURSIVE IsPrefixNorm(_, _)
IsPrefixNorm(p, t) ==
    \/ p = <<>>
    \/ /\ t # <<>>
       /\ p[1].c = t[1].c
       /\ \/ Len(p) = 1 /\ p[1].n <= t[1].n
          \/ p[1].n = t[1].n /\ IsPrefixNorm(Tail(p), Tail(t))

\* C20: the text a prompt builder embeds is the first min(len(text), 5000)
\* characters of the source text: a prefix of it, never longer than 5000
\* characters, and the whole text when that has at most 5000 characters;
\* the prompt is the instruction template around it.
C20_PromptEmbedsBoundedPrefix ==
    (pc = "done" /\ builder # "none") =>
        /\ (IsPrefixNorm(Norm(EmbeddedText), Norm(source_text)))
        /\ RunLen(EmbeddedText) = Min(RunLen(source_text), 5000)
        /\ RunLen(EmbeddedText) <= 5000
        /\ RunLen(source_text) <= 5000
              => Norm(EmbeddedText) = Norm(source_text)
        /\ builder # "request"
              => /\ prompt = Template(num_cards, EmbeddedText)
                 /\ truncated_text = EmbeddedText

\* a text of 4999 + 2 characters was cut inside its second run by the
\* builder of the service
C20_Witness ==
    /\ pc = "done" /\ builder = "service"
    /\ source_text = <<Run("a", max_text_length - 1), Run("b", 2)>>
    /\ EmbeddedText = <<Run("a", max_text_length - 1), Run("b", 1)>>
    /\ num_cards = MAX_FLASHCARD_COUNT

(***************************************************************************)
(* get_llm_service (services/llm_service.py): worker threads call the      *)
(* accessor of the module global _llm_service_instance.  Nothing locks the *)
(* global, so a thread can be suspended between any two of its steps: the  *)
(* test of the global, the construction of LLMService, the assignment and  *)
(* the read for the return.                                                *)
(***************************************************************************)
MaxThreads == 3

Threads == 1..MaxThreads

InitService ==
    /\ pc = "serving"
    /\ llm_service_instance = 0
    /\ instances = 0
    /\ thread_pc = [t \in Threads |-> "idle"]
    /\ thread_new = [t \in Threads |-> 0]
    /\ thread_returned = [t \in Threads |-> 0]
    /\ readers = {} /\ writers = {}
    /\ OthersIdle("service")

\* a request served on thread t calls get_llm_service()
CallGetLlmService(t) ==
    /\ thread_pc[t] = "idle"
    /\ thread_pc' = [thread_pc EXCEPT ![t] = "test"]
    /\ UNCHANGED <<llm_service_instance, thread_new, thread_returned,
                   instances, readers, writers>>

\* if _llm_service_instance is None:
TestInstance(t) ==
    /\ thread_pc[t] = "test"
    /\ readers' = readers \cup {t}
    /\ thread_pc' = [thread_pc EXCEPT
                        ![t] = IF llm_service_instance = 0
                               THEN "construct" ELSE "return"]
    /\ UNCHANGED <<llm_service_instance, thread_new, thread_returned,
                   instances, writers>>

\* LLMService()
ConstructService(t) ==
    /\ thread_pc[t] = "construct"
    /\ instances' = instances + 1
    /\ thread_new' = [thread_new EXCEPT ![t] = instances + 1]
    /\ thread_pc' = [thread_pc EXCEPT ![t] = "assign"]
    /\ UNCHANGED <<llm_service_instance, thread_returned, readers, writers>>

\* _llm_service_instance = <the new instance>
AssignInstance(t) ==
    /\ thread_pc[t] = "assign"
    /\ llm_service_instance' = thread_new[t]
    /\ writers' = writers \cup {t}
    /\ thread_pc' = [thread_pc EXCEPT ![t] = "return"]
    /\ UNCHANGED <<thread_new, thread_returned, instances, readers>>

\* return _llm_service_instance
ReturnInstance(t) ==
    /\ thread_pc[t] = "return"
    /\ readers' = readers \cup {t}
    /\ thread_returned' = [thread_returned EXCEPT ![t] = llm_service_instance]
    /\ thread_pc' = [thread_pc EXCEPT ![t] = "done"]
    /\ UNCHANGED <<llm_service_instance, thread_new, instances, writers>>

SpecService ==
    InitService
    /\ [][/\ \E t \in Threads :
                \/ CallGetLlmService(t)
                \/ TestInstance(t)
                \/ ConstructService(t)
                \/ AssignInstance(t)
                \/ ReturnInstance(t)
          /\ UNCHANGED <<pc, chunkVars, cleanVars, genVars, choiceVars,
                         uploadVars, promptVars>>]_vars

\* C21: requests served at the same time share no mutable state: no
\* variable that one request writes while it is served is read or written
\* by another request.
C21_NoSharedMutableState ==
    \A t \in Threads : \A u \in Threads :
        (t # u /\ t \in writers) => u \notin readers \cup writers

\* C28: get_llm_service is a singleton accessor: at most one LLMService is
\* ever constructed, and all calls return the same instance.
C28_SingleInstance ==
    /\ instances <= 1
    /\ \A t \in Threads : \A u \in Threads :
          (thread_returned[t] # 0 /\ thread_returned[u] # 0)
              => thread_returned[t] = thread_returned[u]

\* C22: header/footer stripping is line-scoped: the step empties a line
\* only if that line itself contains one of the patterns, and a line that
\* does not contain one is neither removed nor altered, whatever its
\* neighbours contain.
C22_HeaderFooterLineScoped ==
    pc = "cleaned" =>
        LET t2 == RemovePageNumbers(CollapseNewlines(raw, 1), 1)
            before == SplitLines(t2, 1, <<>>)
            after == SplitLines(RemoveHeaderFooter(t2), 1, <<>>)
        IN /\ Len(after) = Len(before)
           /\ \A n \in 1..Len(before) :
                 (\A p \in 1..4 : HeaderFooterEnd(p, before[n], 1) = 0)
                     => after[n] = before[n]

\* C23: after cleaning, no interior line of the result consists solely of
\* the punctuation characters . , ; : ! ? -- also when several such lines
\* follow one another in the input.
C23_NoPunctuationOnlyLine ==
    pc = "cleaned" =>
        LET lines == SplitLines(cleaned, 1, <<>>)
        IN \A n \in 2..(Len(lines) - 1) :
              \/ lines[n] = <<>>
              \/ \E k \in 1..Len(lines[n]) :
                    lines[n][k] \notin {".", ",", ";", ":", "!", "?"}

\* C24: a single sentence longer than the budget b is emitted as
\* consecutive slices of exactly b characters; only the last slice may be
\* shorter.
C24_ForceSplitSlicesFull ==
    (/\ Chunked
     /\ Len(split_sentences(text)) = 1
     /\ Len(strip(text)) > max_chars)
        => \A i \in 1..(Len(chunks) - 1) : Len(chunks[i]) = max_chars

\* C25: chunk_text(t, b) never emits an empty chunk: every returned string
\* holds at least one non-whitespace character.
C25_NoEmptyChunk ==
    Chunked => \A i \in 1..Len(chunks) : NonSpace(chunks[i]) # <<>>

\* C26: the parser is complete on well-formed replies: when the reply is
\* itself a JSON array of objects whose question and answer are non-empty
\* strings, it returns one record per element, in order, with the trimmed
\* values, whatever characters the strings contain.
C26_CompleteOnWellFormedArrays ==
    (/\ Parsed
     /\ json_loads(response_text).ok
     /\ json_loads(response_text).val.t = "list"
     /\ Len(json_loads(response_text).val.v) >= 1
     /\ \A n \in 1..Len(json_loads(response_text).val.v) :
           ValidRecord(json_loads(response_text).val.v[n]))
        => parsed = Returned(ValidRecords(json_loads(response_text).val.v))

\* C27: the two response parsers are equivalent: on every reply,
\* main.parse_flashcard_response and LLMService._parse_flashcard_response
\* return the same list of records or fail with the same kind of failure.
C27_ParsersEquivalent ==
    Parsed =>
        parse_flashcard_response(response_text)
            = LLMService_parse_flashcard_response(response_text)

\* C29: every failure inside flashcard generation leaves
\* generate_flashcards / generate_flashcards_with_ollama as a ValueError,
\* so in flashcards mode the generate endpoint answers a failure with
\* HTTP 422 and never with HTTP 500.
C29_GenerationFailureIs422 ==
    (pc = "done" /\ mode = "flashcards") =>
        /\ result.kind \in {"ok", "ValueError"}
        /\ status = IF result.kind = "ok" THEN 200 ELSE 422

\* the parser of LLMService raised a TypeError on an envelope whose value
\* is not iterable, and the request was answered with 422
C29_Witness ==
    /\ pc = "done"
    /\ mode = "flashcards"
    /\ impl = "service"
    /\ parsed.kind = "TypeError"
    /\ result.kind = "ValueError"
    /\ result.msg = "Flashcard generation failed"
    /\ status = 422

====
